---- MODULE Spec2Model ----
(***************************************************************************)
(* rusty-scribe: the hotkey listener thread (src/hotkeys.rs) and the       *)
(* orchestrator loop of main (src/main.rs) sharing one                     *)
(* Arc<Mutex<HotkeyState>>, with the remote calls of src/api.rs and the    *)
(* clipboard write of src/clipboard.rs as the stages of one pipeline run.  *)
(***************************************************************************)
EXTENDS Integers, Sequences, FiniteSets, TLC

VARIABLES
    \* ---- configuration, read once at startup (config.rs) ----
    recording_keys,       \* parse_hotkey(config.hotkeys.recording)
    always_post_process,  \* config.llm.always_post_process
    keep_history,         \* the model keeps what was sent and written, or forgets it
    \* ---- the shared Arc<Mutex<HotkeyState>> ----
    state,                \* [is_recording, is_post_processing]
    lockHolder,           \* who holds the state mutex: "none", "listener", "main"
    stamp,                \* ghost: per field, the number (mod TagMod) of the write that set it
    writes,               \* ghost: number (mod TagMod) of the last critical section that wrote
    \* ---- listener thread (hotkeys.rs) ----
    lpc,                  \* "listen", "lock_state", "write_rec", "write_pp", "dead"
    pressed,              \* pressed_keys
    recording_active,     \* local of the callback
    modifier_active,      \* local of the callback
    down,                 \* ghost: keys down according to the event history
    \* ---- orchestrator (main.rs) ----
    pc,                   \* position in the loop body
    current_state,        \* the snapshot cloned at the top of the loop
    snapTorn,             \* ghost: the last snapshot read two fields set by different writes
    use_local,
    whisper_url,
    proceed,
    transcription,
    final_text,
    clipboard,            \* the OS clipboard's content
    calls,                \* ghost: the collaborator calls of the current run, in order
    outcome,              \* ghost: how the last run ended
    releasedSinceRun,     \* ghost: the recording combo was seen not fully pressed since the last run started
    activeRuns,           \* ghost: runs started and not yet ended
    \* ---- record_audio (audio.rs) ----
    device_name,          \* config.audio.recording_device
    host,                 \* cpal::default_host(): its default input device and its input devices
    sample_format,        \* config.sample_format() of the selected device
    apc,                  \* position in record_audio
    device,               \* the selected device
    file_created,         \* the container file exists at file_path
    stream,               \* the cpal stream: "none", "playing", "dropped"
    senders,              \* Sender handles of the hand-off channel that are alive
    receiver,             \* the Receiver of the hand-off channel is alive
    chan,                 \* samples sent and not yet received
    cb,                   \* the callback's slice: samples of this invocation still to send
    sent,                 \* ghost: every sample sent on the channel, in order
    container,            \* samples written to the container file, in order
    finalized,            \* calls of writer.finalize()
    result,               \* what record_audio returned
    tokens,               \* ghost: the tokens the combo string was made of
    hotkey,               \* a combo string given to parse_hotkey
    parsed,               \* the set parse_hotkey returned for hotkey
    hotkey2,              \* a second combo string, made from the first
    parsed2,              \* the set parse_hotkey returned for hotkey2
    ppc,                  \* position of the parse_hotkey calls
    whisper_resp,         \* what the network answers to a Whisper request
    llm_resp,             \* what the network answers to an LLM request
    api_result,           \* what the api.rs function returned
    api_pc                \* position of the api.rs calls

cfgVars  == <<recording_keys, always_post_process, keep_history>>
shVars   == <<state, lockHolder, stamp, writes>>
lVars    == <<lpc, pressed, recording_active, modifier_active, down>>
runVars  == <<use_local, whisper_url, proceed, transcription, final_text>>
mVars    == <<pc, current_state, snapTorn, runVars, clipboard, calls, outcome, activeRuns>>
hkVars   == <<cfgVars, shVars, lVars, mVars, releasedSinceRun>>
devVars  == <<device_name, host, sample_format, device, file_created>>
chVars   == <<stream, senders, receiver, chan, cb, sent>>
aVars    == <<devVars, chVars, apc, container, finalized, result>>
pVars    == <<tokens, hotkey, parsed, hotkey2, parsed2, ppc>>
rVars    == <<whisper_resp, llm_resp, api_result, api_pc>>
vars     == <<hkVars, aVars, pVars, rVars>>

----------------------------------------------------------------------------
(* Bounds of the model *)

\* write stamps count modulo TagMod
TagMod == 2

\* samples the hardware callback sends in one recording session
MaxSamples == 3

\* input samples the driver hands to one callback invocation
MaxData == 2

\* tokens in a combo string
MaxTokens == 2

----------------------------------------------------------------------------
(* Keys, events, combos *)

\* rdev::Key values the model distinguishes
Keys == {"ShiftLeft", "Space", "ControlLeft"}

\* rdev::EventType: KeyPress(key), KeyRelease(key), anything else (mouse, wheel)
Events ==
    [type : {"KeyPress", "KeyRelease"}, key : Keys] \cup {[type |-> "Other", key |-> "none"]}

\* parse_hotkey(config.hotkeys.recording) for "Shift+Space"
RecordingCombos == {{"ShiftLeft", "Space"}}

\* parse_hotkey(config.hotkeys.post_processing_modifier) for "Control"
modifier_keys == {"ControlLeft"}

\* HotkeyState::new()
HotkeyStateNew == [is_recording |-> FALSE, is_post_processing |-> FALSE]

----------------------------------------------------------------------------
(* Texts and the remote calls of api.rs *)

\* a text is a sequence of characters; " " is whitespace
Transcripts == {<<"a">>, <<" ", "a">>}
Candidates  == {<<"b">>, <<" ", "b", " ">>}
OldClipboard == <<"o">>

RECURSIVE TrimStart(_)
TrimStart(s) == IF s # <<>> /\ Head(s) = " " THEN TrimStart(Tail(s)) ELSE s

RECURSIVE TrimEnd(_)
TrimEnd(s) ==
    IF s # <<>> /\ s[Len(s)] = " " THEN TrimEnd(SubSeq(s, 1, Len(s) - 1)) ELSE s

\* str::trim
Trim(s) == TrimEnd(TrimStart(s))

\* anyhow::Result<String>: Ok(text) or Err(message); a message is a sequence of strings
Ok(v)  == [ok |-> TRUE, val |-> v]
Err(m) == [ok |-> FALSE, val |-> m]

\* reqwest::StatusCode::is_success
is_success(status) == status >= 200 /\ status <= 299

\* Display of reqwest::StatusCode
StatusText(status) ==
    CASE status = 200 -> "200 OK"
      [] status = 204 -> "204 No Content"
      [] status = 400 -> "400 Bad Request"
      [] status = 404 -> "404 Not Found"
      [] status = 500 -> "500 Internal Server Error"
      [] OTHER -> "unknown"

\* what the network can answer to a request: no answer at all (transport
\* error), or a status with a body that parses as the expected JSON or not
WhisperResponses ==
    [file_ok : BOOLEAN, transport_ok : BOOLEAN, status : {200, 400},
     body : {"json", "garbage"}, text : Transcripts]

LLMResponses ==
    [transport_ok : BOOLEAN, status : {200, 500}, body : {"json", "garbage"},
     choices : {<<>>} \cup {<<[text |-> c]>> : c \in Candidates}
                 \cup {<<[text |-> c], [text |-> d]>> : c \in Candidates, d \in Candidates}]

ProbeAnswers == [transport_ok : BOOLEAN, status : {200, 500}]

is_local_endpoint_available(answer) ==
    IF answer.transport_ok THEN is_success(answer.status) ELSE FALSE

transcribe_audio(resp) ==
    IF ~resp.file_ok THEN Err(<<"Failed to attach audio file">>)
    ELSE IF ~resp.transport_ok THEN Err(<<"Failed to send request to Whisper endpoint">>)
    ELSE IF is_success(resp.status)
         THEN IF resp.body = "json" THEN Ok(resp.text)
              ELSE Err(<<"Failed to parse Whisper response">>)
         ELSE Err(<<"Whisper API error ", StatusText(resp.status), ": ", resp.body>>)

\* a post_process_text that takes the last candidate
post_process_text_last(resp) ==
    IF ~resp.transport_ok THEN Err(<<"Failed to send request to LLM endpoint">>)
    ELSE IF is_success(resp.status)
         THEN IF resp.body # "json" THEN Err(<<"Failed to parse LLM response">>)
              ELSE IF resp.choices # <<>>
                   THEN Ok(Trim(resp.choices[Len(resp.choices)].text))
              ELSE Err(<<"No choices found in LLM response">>)
         ELSE Err(<<"LLM API error ", StatusText(resp.status), ": ", resp.body>>)

post_process_text(resp) ==
    IF ~resp.transport_ok THEN Err(<<"Failed to send request to LLM endpoint">>)
    ELSE IF is_success(resp.status)
         THEN IF resp.body # "json" THEN Err(<<"Failed to parse LLM response">>)
              ELSE IF resp.choices # <<>> THEN Ok(Trim(Head(resp.choices).text))
              ELSE Err(<<"No choices found in LLM response">>)
         ELSE Err(<<"LLM API error ", StatusText(resp.status), ": ", resp.body>>)

\* statuses a server can answer with: two of success, three of failure
ApiStatuses == {200, 204, 400, 404, 500}

\* answers to a call of transcribe_audio made on its own
ApiWhisperResponses ==
    [file_ok : BOOLEAN, transport_ok : BOOLEAN, status : ApiStatuses,
     body : {"json", "garbage"}, text : Transcripts]

\* candidate texts: the two of Candidates and one that differs after the trim
ApiCandidates == Candidates \cup {<<"c">>}

\* answers to a call of post_process_text made on its own
ApiLLMResponses ==
    [transport_ok : BOOLEAN, status : ApiStatuses, body : {"json", "garbage"},
     choices : {<<>>} \cup {<<[text |-> c]>> : c \in ApiCandidates}
                 \cup {<<[text |-> c], [text |-> d]>> : c \in ApiCandidates, d \in ApiCandidates}]

\* no api.rs call made on its own
ApiIdle ==
    /\ whisper_resp = [file_ok |-> TRUE, transport_ok |-> TRUE, status |-> 200,
                       body |-> "json", text |-> <<"a">>]
    /\ llm_resp = [transport_ok |-> TRUE, status |-> 200, body |-> "json", choices |-> <<>>]
    /\ api_result = Ok(<<>>)
    /\ api_pc = "idle"

\* transcribe_audio(whisper_url, api_key, audio_path)
ApiTranscribe ==
    /\ api_pc = "start"
    /\ api_result' = transcribe_audio(whisper_resp)
    /\ api_pc' = "transcribed"
    /\ UNCHANGED <<hkVars, aVars, pVars, whisper_resp, llm_resp>>

\* post_process_text(llm_url, api_key, prompt, text)
ApiPostProcess ==
    /\ api_pc = "start"
    /\ api_result' = post_process_text(llm_resp)
    /\ api_pc' = "post_processed"
    /\ UNCHANGED <<hkVars, aVars, pVars, whisper_resp, llm_resp>>

----------------------------------------------------------------------------
(* The shared state mutex *)

\* a lock that excludes nobody
NoMutex == TRUE

\* Mutex::lock succeeds only while nobody holds the mutex
CanLock == lockHolder = "none"

NextWrite == (writes + 1) % TagMod

----------------------------------------------------------------------------
(* Listener thread: the callback given to rdev::listen *)

\* a release that leaves the key in the set
UpdatePressedNoRemove(p, e) ==
    CASE e.type = "KeyPress" -> p \cup {e.key}
      [] OTHER               -> p

\* the match on event.event_type
UpdatePressed(p, e) ==
    CASE e.type = "KeyPress"   -> p \cup {e.key}
      [] e.type = "KeyRelease" -> p \ {e.key}
      [] OTHER                 -> p

\* a combo that is active as soon as one of its keys is pressed
ComboActiveAny(keys, p) == \E k \in keys : k \in p

\* keys.iter().all(|k| pressed.contains(k))
ComboActive(keys, p) == \A k \in keys : k \in p

\* the process is running: no thread runs after main has returned
ProcessAlive == pc # "exited"

\* an event arrives: the pressed set is updated and the two combos are evaluated
ListenerEvent(e) ==
    /\ ProcessAlive
    /\ lpc = "listen"
    /\ pressed' = UpdatePressed(pressed, e)
    /\ recording_active' = ComboActive(recording_keys, pressed')
    /\ modifier_active' = ComboActive(modifier_keys, pressed')
    /\ lpc' = "lock_state"
    /\ down' = IF e.type = "KeyPress" THEN down \cup {e.key}
               ELSE IF e.type = "KeyRelease" THEN down \ {e.key}
               ELSE down
    /\ releasedSinceRun' = (releasedSinceRun \/ ~(recording_keys \subseteq down'))
    /\ UNCHANGED <<rVars, pVars, aVars, cfgVars, shVars, mVars>>

\* state.lock().unwrap()
ListenerLock ==
    /\ ProcessAlive
    /\ lpc = "lock_state"
    /\ CanLock
    /\ lockHolder' = "listener"
    /\ writes' = NextWrite
    /\ lpc' = "write_rec"
    /\ UNCHANGED <<rVars, pVars, aVars, cfgVars, state, stamp, pressed, recording_active, modifier_active,
                   down, mVars, releasedSinceRun>>

\* state_lock.is_recording = recording_active
ListenerWriteRec ==
    /\ ProcessAlive
    /\ lpc = "write_rec"
    /\ state' = [state EXCEPT !.is_recording = recording_active]
    /\ stamp' = [stamp EXCEPT !.is_recording = writes]
    /\ lpc' = "write_pp"
    /\ UNCHANGED <<rVars, pVars, aVars, cfgVars, lockHolder, writes, pressed, recording_active,
                   modifier_active, down, mVars, releasedSinceRun>>

\* state_lock.is_post_processing = modifier_active; the guards drop as the callback returns
ListenerWritePp ==
    /\ ProcessAlive
    /\ lpc = "write_pp"
    /\ state' = [state EXCEPT !.is_post_processing = modifier_active]
    /\ stamp' = [stamp EXCEPT !.is_post_processing = writes]
    /\ lockHolder' = "none"
    /\ lpc' = "listen"
    /\ UNCHANGED <<rVars, pVars, aVars, cfgVars, writes, pressed, recording_active, modifier_active,
                   down, mVars, releasedSinceRun>>

\* a listener thread that ends inside the callback, the state guard not dropped
ListenerDiesInCallback ==
    /\ ProcessAlive
    /\ lpc \in {"listen", "write_rec"}
    /\ lpc' = "dead"
    /\ UNCHANGED <<rVars, pVars, aVars, cfgVars, shVars, pressed, recording_active, modifier_active,
                   down, mVars, releasedSinceRun>>

\* listen() returns Err (the event source cannot be opened, or dies): the
\* error is printed and the thread's closure returns
ListenerDies ==
    /\ ProcessAlive
    /\ lpc = "listen"
    /\ lpc' = "dead"
    /\ UNCHANGED <<rVars, pVars, aVars, cfgVars, shVars, pressed, recording_active, modifier_active,
                   down, mVars, releasedSinceRun>>

----------------------------------------------------------------------------
(* Orchestrator: the loop of main *)

Call(f, a, good) == [fn |-> f, arg |-> a, ok |-> good]

\* the positions of the loop body between the start of a run and its end
RunPhases ==
    {"record", "probe", "confirm", "transcribe", "post_process", "deliver",
     "reset_lock", "reset_rec", "reset_pp"}

\* a poll that is also taken while the transcription call is pending
AtLoopTopOrTranscribing == pc \in {"poll", "transcribe"}

\* the top of `loop`, where the shared state is locked and cloned
AtLoopTop == pc = "poll"

\* `continue`: the rest of the loop body, the reset and the sleep included, is skipped
Continue(how) ==
    /\ pc' = "poll"
    /\ outcome' = how
    /\ activeRuns' = activeRuns - 1

\* let current_state = state.lock().unwrap().clone(); if current_state.is_recording
MainPoll ==
    /\ AtLoopTop
    /\ CanLock
    /\ current_state' = state
    /\ snapTorn' = (stamp.is_recording # stamp.is_post_processing)
    /\ IF state.is_recording
       THEN /\ pc' = "record"
            /\ calls' = <<>>
            /\ outcome' = "running"
            /\ activeRuns' = activeRuns + 1
            /\ use_local' = FALSE
            /\ whisper_url' = "unset"
            /\ proceed' = FALSE
            /\ transcription' = <<>>
            /\ final_text' = <<>>
            /\ releasedSinceRun' = ~(recording_keys \subseteq down)
       ELSE /\ pc' = "sleep"
            /\ UNCHANGED <<calls, outcome, activeRuns, runVars, releasedSinceRun>>
    /\ UNCHANGED <<rVars, pVars, aVars, cfgVars, shVars, lVars, clipboard>>

\* thread::sleep(Duration::from_millis(100))
MainSleep ==
    /\ pc = "sleep"
    /\ pc' = "poll"
    /\ UNCHANGED <<rVars, pVars, aVars, cfgVars, shVars, lVars, current_state, snapTorn, runVars,
                   clipboard, calls, outcome, activeRuns, releasedSinceRun>>

\* if let Err(e) = record_audio(...) { error!(...); continue; }
MainRecord ==
    /\ pc = "record"
    /\ \E recorded \in BOOLEAN :
          /\ calls' = Append(calls, Call("record_audio", "recording.wav", recorded))
          /\ IF recorded
             THEN /\ pc' = "probe"
                  /\ UNCHANGED <<outcome, activeRuns>>
             ELSE Continue("recording_failed")
    /\ UNCHANGED <<rVars, pVars, aVars, cfgVars, shVars, lVars, current_state, snapTorn, runVars,
                   clipboard, releasedSinceRun>>

\* the two branches exchanged
SelectWhisperUrlSwapped(local) == IF local THEN "hosted_whisper" ELSE "local_whisper"

\* let whisper_url = if use_local { local_whisper } else { hosted_whisper }
SelectWhisperUrl(local) == IF local THEN "local_whisper" ELSE "hosted_whisper"

\* let use_local = is_local_endpoint_available(&config.endpoints.local_whisper)
MainProbe ==
    /\ pc = "probe"
    /\ \E answer \in ProbeAnswers :
          /\ use_local' = is_local_endpoint_available(answer)
          /\ calls' = Append(calls, Call("probe", "local_whisper", use_local'))
    /\ whisper_url' = SelectWhisperUrl(use_local')
    /\ pc' = "confirm"
    /\ UNCHANGED <<rVars, pVars, aVars, cfgVars, shVars, lVars, current_state, snapTorn, proceed,
                   transcription, final_text, clipboard, outcome, activeRuns,
                   releasedSinceRun>>

\* what Confirm::interact() returns: the user's answer, or an io error
ConfirmAnswers == {"yes", "no", "error"}

\* the answer is not looked at
GateNeverAborts(p) == FALSE

\* if !proceed { continue; }
GateAborts(p) == ~p

\* let proceed = if !use_local { Confirm::new()...default(false).interact()? } else { true };
\* `?` returns the error from main
MainConfirm ==
    /\ pc = "confirm"
    /\ \E answer \in (IF use_local THEN {"skipped"} ELSE ConfirmAnswers) :
          IF answer = "error"
          THEN /\ calls' = Append(calls, Call("confirm", answer, FALSE))
               /\ pc' = "exited"
               /\ outcome' = "process_exited"
               /\ activeRuns' = activeRuns - 1
               /\ UNCHANGED proceed
          ELSE /\ calls' = IF answer = "skipped" THEN calls
                           ELSE Append(calls, Call("confirm", answer, TRUE))
               /\ proceed' = (answer \in {"skipped", "yes"})
               /\ IF GateAborts(proceed')
                  THEN Continue("declined")
                  ELSE /\ pc' = "transcribe"
                       /\ UNCHANGED <<outcome, activeRuns>>
    /\ UNCHANGED <<rVars, pVars, aVars, cfgVars, shVars, lVars, current_state, snapTorn, use_local,
                   whisper_url, transcription, final_text, clipboard, releasedSinceRun>>

\* an Err arm that goes on with an empty transcript
AfterTranscribeFallThrough(r) ==
    /\ transcription' = IF r.ok THEN r.val ELSE <<>>
    /\ pc' = "post_process"
    /\ UNCHANGED <<outcome, activeRuns>>

\* match transcribe_audio(...) { Ok(text) => text, Err(e) => { error!(...); continue; } }
AfterTranscribe(r) ==
    IF r.ok
    THEN /\ transcription' = r.val
         /\ pc' = "post_process"
         /\ UNCHANGED <<outcome, activeRuns>>
    ELSE /\ Continue("transcription_failed")
         /\ UNCHANGED transcription

MainTranscribe ==
    /\ pc = "transcribe"
    /\ \E resp \in WhisperResponses :
          LET r == transcribe_audio(resp) IN
          /\ calls' = Append(calls, Call("transcribe_audio", whisper_url, r.ok))
          /\ AfterTranscribe(r)
    /\ UNCHANGED <<rVars, pVars, aVars, cfgVars, shVars, lVars, current_state, snapTorn, use_local,
                   whisper_url, proceed, final_text, clipboard, releasedSinceRun>>

\* the decision read from the live shared state instead of the run's snapshot
post_processing_needed_live == state.is_post_processing \/ always_post_process

\* let post_processing_needed = current_state.is_post_processing || config.llm.always_post_process
post_processing_needed == current_state.is_post_processing \/ always_post_process

\* an Err arm that trims the transcript it falls back to
PostProcessedTrimmedFallback(r, transcript) == IF r.ok THEN r.val ELSE Trim(transcript)

\* match post_process_text(...) { Ok(text) => text, Err(e) => transcription.clone() }
PostProcessed(r, transcript) == IF r.ok THEN r.val ELSE transcript

\* let final_text = if post_processing_needed { ... } else { transcription.clone() }
MainPostProcess ==
    /\ pc = "post_process"
    /\ IF post_processing_needed
       THEN \E resp \in LLMResponses :
               LET r == post_process_text(resp) IN
               /\ calls' = Append(calls, Call("post_process_text", transcription, r.ok))
               /\ final_text' = PostProcessed(r, transcription)
       ELSE /\ final_text' = transcription
            /\ UNCHANGED calls
    /\ pc' = "deliver"
    /\ UNCHANGED <<rVars, pVars, aVars, cfgVars, shVars, lVars, current_state, snapTorn, use_local,
                   whisper_url, proceed, transcription, clipboard, outcome, activeRuns,
                   releasedSinceRun>>

\* a clipboard write that is tried again after a failure
MainDeliverRetry ==
    /\ pc = "deliver"
    /\ \E written \in BOOLEAN :
          /\ calls' = Append(calls, Call("copy_to_clipboard", final_text, written))
          /\ clipboard' = IF written THEN final_text ELSE clipboard
          /\ pc' = IF written THEN "reset_lock" ELSE "deliver"
    /\ UNCHANGED <<rVars, pVars, aVars, cfgVars, shVars, lVars, current_state, snapTorn, runVars,
                   outcome, activeRuns, releasedSinceRun>>

\* if let Err(e) = copy_to_clipboard(&final_text) { error!(...); }
MainDeliver ==
    /\ pc = "deliver"
    /\ \E written \in BOOLEAN :
          /\ calls' = Append(calls, Call("copy_to_clipboard", final_text, written))
          /\ clipboard' = IF written THEN final_text ELSE clipboard
    /\ pc' = "reset_lock"
    /\ UNCHANGED <<rVars, pVars, aVars, cfgVars, shVars, lVars, current_state, snapTorn, runVars,
                   outcome, activeRuns, releasedSinceRun>>

\* let mut state_lock = state.lock().unwrap();
MainResetLock ==
    /\ pc = "reset_lock"
    /\ CanLock
    /\ lockHolder' = "main"
    /\ writes' = NextWrite
    /\ pc' = "reset_rec"
    /\ UNCHANGED <<rVars, pVars, aVars, cfgVars, state, stamp, lVars, current_state, snapTorn, runVars,
                   clipboard, calls, outcome, activeRuns, releasedSinceRun>>

\* state_lock.is_recording = false;
MainResetRec ==
    /\ pc = "reset_rec"
    /\ state' = [state EXCEPT !.is_recording = FALSE]
    /\ stamp' = [stamp EXCEPT !.is_recording = writes]
    /\ pc' = "reset_pp"
    /\ UNCHANGED <<rVars, pVars, aVars, cfgVars, lockHolder, writes, lVars, current_state, snapTorn,
                   runVars, clipboard, calls, outcome, activeRuns, releasedSinceRun>>

\* a reset whose guard is not dropped
MainResetPpKeepsLock ==
    /\ pc = "reset_pp"
    /\ state' = [state EXCEPT !.is_post_processing = FALSE]
    /\ stamp' = [stamp EXCEPT !.is_post_processing = writes]
    /\ pc' = "sleep"
    /\ outcome' = "completed"
    /\ activeRuns' = activeRuns - 1
    /\ UNCHANGED <<rVars, pVars, aVars, cfgVars, lockHolder, writes, lVars, current_state,
                   snapTorn, runVars, clipboard, calls, releasedSinceRun>>

\* state_lock.is_post_processing = false; the guard drops at the end of the block
MainResetPp ==
    /\ pc = "reset_pp"
    /\ state' = [state EXCEPT !.is_post_processing = FALSE]
    /\ stamp' = [stamp EXCEPT !.is_post_processing = writes]
    /\ lockHolder' = "none"
    /\ pc' = "sleep"
    /\ outcome' = "completed"
    /\ activeRuns' = activeRuns - 1
    /\ UNCHANGED <<rVars, pVars, aVars, cfgVars, writes, lVars, current_state, snapTorn, runVars,
                   clipboard, calls, releasedSinceRun>>

----------------------------------------------------------------------------
(* Strings: a string is the sequence of its characters *)

\* the letters that occur in the strings of the model, in both cases
LowerLetters == <<"a", "c", "d", "e", "f", "h", "i", "l", "m", "n", "o", "p", "r", "s", "t", "u">>
UpperLetters == <<"A", "C", "D", "E", "F", "H", "I", "L", "M", "N", "O", "P", "R", "S", "T", "U">>

\* char::to_lowercase: a capital becomes its small letter, anything else stays
char_to_lowercase(c) ==
    IF \E i \in 1..Len(UpperLetters) : UpperLetters[i] = c
    THEN LowerLetters[CHOOSE i \in 1..Len(UpperLetters) : UpperLetters[i] = c]
    ELSE c

\* char::to_uppercase
char_to_uppercase(c) ==
    IF \E i \in 1..Len(LowerLetters) : LowerLetters[i] = c
    THEN UpperLetters[CHOOSE i \in 1..Len(LowerLetters) : LowerLetters[i] = c]
    ELSE c

\* str::to_lowercase
to_lowercase(s) == [i \in 1..Len(s) |-> char_to_lowercase(s[i])]

\* str::to_uppercase
to_uppercase(s) == [i \in 1..Len(s) |-> char_to_uppercase(s[i])]

\* char::is_whitespace: blank and tab
is_whitespace(c) == c \in {" ", "\t"}

RECURSIVE trim_start(_)
trim_start(s) ==
    IF s # <<>> /\ is_whitespace(Head(s)) THEN trim_start(Tail(s)) ELSE s

RECURSIVE trim_end(_)
trim_end(s) ==
    IF s # <<>> /\ is_whitespace(s[Len(s)]) THEN trim_end(SubSeq(s, 1, Len(s) - 1)) ELSE s

\* a trim of the front only
trim_front_only(s) == trim_start(s)

\* str::trim
trim(s) == trim_end(trim_start(s))

\* str::split(sep): the pieces between the separators, empty pieces included
RECURSIVE split(_, _)
split(s, sep) ==
    IF \E i \in 1..Len(s) : s[i] = sep
    THEN LET i == CHOOSE k \in 1..Len(s) : s[k] = sep /\ \A j \in 1..(k - 1) : s[j] # sep
         IN  <<SubSeq(s, 1, i - 1)>> \o split(SubSeq(s, i + 1, Len(s)), sep)
    ELSE <<s>>

\* the words of the model, letter by letter
Word(w) ==
    CASE w = "shift"   -> <<"s", "h", "i", "f", "t">>
      [] w = "control" -> <<"c", "o", "n", "t", "r", "o", "l">>
      [] w = "ctrl"    -> <<"c", "t", "r", "l">>
      [] w = "alt"     -> <<"a", "l", "t">>
      [] w = "space"   -> <<"s", "p", "a", "c", "e">>
      [] w = "enter"   -> <<"e", "n", "t", "e", "r">>
      [] w = "escape"  -> <<"e", "s", "c", "a", "p", "e">>
      [] w = "f1"      -> <<"f", "1">>
      [] w = "empty"   -> <<>>
      [] w = "default" -> <<"d", "e", "f", "a", "u", "l", "t">>
      [] w = "mic"     -> <<"m", "i", "c">>
      [] w = "none"    -> <<"n", "o", "n", "e">>

\* a string in small letters, in capitals, or with a capital first letter
Cased(s, c) ==
    CASE c = "lower" -> s
      [] c = "upper" -> to_uppercase(s)
      [] c = "title" -> IF s = <<>> THEN s ELSE <<char_to_uppercase(Head(s))>> \o Tail(s)

----------------------------------------------------------------------------
(* parse_hotkey *)

\* a match arm that takes every other token for the space bar
MatchKeyCatchAll(tok) ==
    CASE tok = Word("shift")   -> {"ShiftLeft"}
      [] tok = Word("control") -> {"ControlLeft"}
      [] tok = Word("ctrl")    -> {"ControlLeft"}
      [] tok = Word("alt")     -> {"Alt"}
      [] tok = Word("space")   -> {"Space"}
      [] tok = Word("enter")   -> {"Return"}
      [] tok = Word("escape")  -> {"Escape"}
      [] OTHER                 -> {"Space"}

\* the match of parse_hotkey: Some(key) is {key}, None is {}
MatchKey(tok) ==
    CASE tok = Word("shift")   -> {"ShiftLeft"}
      [] tok = Word("control") -> {"ControlLeft"}
      [] tok = Word("ctrl")    -> {"ControlLeft"}
      [] tok = Word("alt")     -> {"Alt"}
      [] tok = Word("space")   -> {"Space"}
      [] tok = Word("enter")   -> {"Return"}
      [] tok = Word("escape")  -> {"Escape"}
      [] OTHER                 -> {}

\* hotkey.split('+').filter_map(|part| match part.trim().to_lowercase() ..).collect()
parse_hotkey(hk) ==
    LET parts == split(hk, "+")
    IN  UNION {MatchKey(to_lowercase(trim(parts[i]))) : i \in 1..Len(parts)}

\* the words combo strings are made of: four that parse_hotkey knows, two of
\* them for the same key, and two it does not know, one of them empty
RecognizedWords == {"shift", "space", "ctrl", "control"}
UnrecognizedWords == {"f1", "empty"}
TokenWords == RecognizedWords \cup UnrecognizedWords

\* a token as written: a word, its letter case, blanks around it or not
WrittenTokens(cases) == [word : TokenWords, case : cases, pad : {"none", "around"}]

Padded(s, p) == IF p = "around" THEN <<" ">> \o s \o <<" ", "\t">> ELSE s

Decorated(t) == Padded(Cased(Word(t.word), t.case), t.pad)

RECURSIVE Join(_)
Join(parts) ==
    IF Len(parts) = 0 THEN <<>>
    ELSE IF Len(parts) = 1 THEN parts[1]
    ELSE parts[1] \o <<"+">> \o Join(Tail(parts))

\* the combo string of a sequence of written tokens, as in "Ctrl + Shift + Escape"
Render(toks) == Join([i \in 1..Len(toks) |-> Decorated(toks[i])])

TokenOrders(n) == {f \in [1..n -> 1..n] : \A i, j \in 1..n : f[i] = f[j] => i = j}

IsRecognized(t) == t.word \in RecognizedWords

\* no parse_hotkey call under way
ParseIdle ==
    /\ tokens = <<>>
    /\ hotkey = <<>>
    /\ parsed = {}
    /\ hotkey2 = <<>>
    /\ parsed2 = {}
    /\ ppc = "idle"

\* parse_hotkey(hotkey)
ParseFirst ==
    /\ ppc = "start"
    /\ parsed' = parse_hotkey(hotkey)
    /\ ppc' = "parsed"
    /\ UNCHANGED <<rVars, hkVars, aVars, tokens, hotkey, hotkey2, parsed2>>

\* parse_hotkey(hotkey) once more
ParseAgain ==
    /\ ppc = "parsed"
    /\ hotkey2' = hotkey
    /\ parsed2' = parse_hotkey(hotkey)
    /\ ppc' = "again"
    /\ UNCHANGED <<rVars, hkVars, aVars, tokens, hotkey, parsed>>

\* how the tokens are written the second time: in capitals without blanks,
\* or in small letters with blanks around them
Redecorations == {[case |-> "upper", pad |-> "none"], [case |-> "lower", pad |-> "around"]}

\* parse_hotkey of the same tokens in another order, in another letter case
\* and with other blanks
ParsePermuted ==
    /\ ppc = "parsed"
    /\ \E f \in TokenOrders(Len(tokens)), d \in Redecorations :
          hotkey2' = Render([i \in 1..Len(tokens) |->
                               [word |-> tokens[f[i]].word, case |-> d.case, pad |-> d.pad]])
    /\ parsed2' = parse_hotkey(hotkey2')
    /\ ppc' = "permuted"
    /\ UNCHANGED <<rVars, hkVars, aVars, tokens, hotkey, parsed>>

\* parse_hotkey of the string without its unrecognized tokens
ParseStripped ==
    /\ ppc = "parsed"
    /\ hotkey2' = Render(SelectSeq(tokens, IsRecognized))
    /\ parsed2' = parse_hotkey(hotkey2')
    /\ ppc' = "stripped"
    /\ UNCHANGED <<rVars, hkVars, aVars, tokens, hotkey, parsed>>

----------------------------------------------------------------------------
(* record_audio: device selection, the capture stream and the capture sink *)

\* a device name, written in small letters or with a capital first letter
Name(t, f) == Cased(Word(t), IF f = "caps" THEN "title" ELSE "lower")

NoDevice == [id |-> 0, name |-> Name("none", "lower")]
Mic      == [id |-> 1, name |-> Name("mic", "lower")]
MicCaps  == [id |-> 2, name |-> Name("mic", "caps")]

\* values of config.audio.recording_device: "default", "Default", "mic", "Mic"
ConfigDeviceNames ==
    {Name("default", "lower"), Name("default", "caps"),
     Name("mic", "lower"), Name("mic", "caps")}

\* hosts: no input device at all; one device "mic", the default; two devices
\* "Mic" and "mic", the latter the default
Hosts ==
    {[default_input_device |-> NoDevice, input_devices |-> <<>>],
     [default_input_device |-> Mic, input_devices |-> <<Mic>>],
     [default_input_device |-> Mic, input_devices |-> <<MicCaps, Mic>>]}

\* cpal::SampleFormat: the three supported encodings and one of the others
SampleFormats == {"F32", "I16", "U16", "U8"}

\* Iterator::find: the first device of the enumeration whose name is wanted
RECURSIVE FindDevice(_, _)
FindDevice(devices, wanted) ==
    IF devices = <<>> THEN NoDevice
    ELSE IF Head(devices).name = wanted THEN Head(devices)
    ELSE FindDevice(Tail(devices), wanted)

\* the sentinel test that compares the name as written
SelectDeviceCaseSensitive(name, h) ==
    IF name = Name("default", "lower")
    THEN IF h.default_input_device = NoDevice
         THEN [ok |-> FALSE, device |-> NoDevice, err |-> "No default input device available"]
         ELSE [ok |-> TRUE, device |-> h.default_input_device, err |-> ""]
    ELSE LET d == FindDevice(h.input_devices, name) IN
         IF d = NoDevice
         THEN [ok |-> FALSE, device |-> NoDevice, err |-> "Specified recording device not found"]
         ELSE [ok |-> TRUE, device |-> d, err |-> ""]

\* let device = if device_name.to_lowercase() == "default" { default_input_device()? }
\*              else { input_devices()?.find(|d| name == device_name)? }
SelectDevice(name, h) ==
    IF to_lowercase(name) = Name("default", "lower")
    THEN IF h.default_input_device = NoDevice
         THEN [ok |-> FALSE, device |-> NoDevice, err |-> "No default input device available"]
         ELSE [ok |-> TRUE, device |-> h.default_input_device, err |-> ""]
    ELSE LET d == FindDevice(h.input_devices, name) IN
         IF d = NoDevice
         THEN [ok |-> FALSE, device |-> NoDevice, err |-> "Specified recording device not found"]
         ELSE [ok |-> TRUE, device |-> d, err |-> ""]

\* a 16-bit pattern read as i16
ToI16(u) == IF u >= 32768 THEN u - 65536 ELSE u

\* the samples a device of each encoding delivers: an f32 as its two 16-bit
\* halves in memory order (1.0 and -1.0), an i16, a u16
InputSamples(fmt) ==
    CASE fmt = "F32" -> {<<0, 16256>>, <<0, 49024>>}
      [] fmt = "I16" -> {<<7>>, <<65534>>}
      [] OTHER       -> {<<7>>, <<65535>>}

\* the slices the driver hands to the callback
InputData(fmt) ==
    UNION {[1..n -> InputSamples(fmt)] : n \in 1..MaxData}

\* bytemuck::cast_slice::<T, i16>: the same bytes, read as i16
RECURSIVE cast_slice(_)
cast_slice(data) ==
    IF data = <<>> THEN <<>>
    ELSE [i \in 1..Len(Head(data)) |-> ToI16(Head(data)[i])] \o cast_slice(Tail(data))

\* return: the locals are dropped, the stream first, then rx and tx
Return(r) ==
    /\ apc' = "returned"
    /\ result' = r
    /\ stream' = IF stream = "none" THEN "none" ELSE "dropped"
    /\ senders' = 0
    /\ receiver' = FALSE
    /\ cb' = <<>>

AudioErr(msg) == [ok |-> FALSE, err |-> msg]
AudioOk == [ok |-> TRUE, err |-> ""]

\* lines 22-31
AudioSelect ==
    /\ apc = "select"
    /\ LET s == SelectDevice(device_name, host) IN
       IF s.ok
       THEN /\ device' = s.device
            /\ apc' = "config"
            /\ UNCHANGED <<result, stream, senders, receiver, cb>>
       ELSE /\ Return(AudioErr(s.err))
            /\ UNCHANGED device
    /\ UNCHANGED <<rVars, pVars, hkVars, device_name, host, sample_format, file_created, chan, sent,
                   container, finalized>>

\* device.name()?; device.default_input_config()?; config.sample_format()
AudioConfig ==
    /\ apc = "config"
    /\ \/ /\ Return(AudioErr("Failed to get default input config"))
          /\ UNCHANGED sample_format
       \/ /\ \E f \in SampleFormats : sample_format' = f
          /\ apc' = "create"
          /\ UNCHANGED <<result, stream, senders, receiver, cb>>
    /\ UNCHANGED <<rVars, pVars, hkVars, device_name, host, device, file_created, chan, sent,
                   container, finalized>>

\* WavWriter::create(file_path, spec)?
AudioCreate ==
    /\ apc = "create"
    /\ \/ /\ Return(AudioErr("Failed to create WAV file"))
          /\ UNCHANGED file_created
       \/ /\ file_created' = TRUE
          /\ apc' = "build"
          /\ UNCHANGED <<result, stream, senders, receiver, cb>>
    /\ UNCHANGED <<rVars, pVars, hkVars, device_name, host, sample_format, device, chan, sent,
                   container, finalized>>

\* let (tx, rx) = mpsc::channel(); build_stream::<T>(&device, &config, tx.clone())?;
\* stream.play()?
AudioBuild ==
    /\ apc = "build"
    /\ IF sample_format \notin {"F32", "I16", "U16"}
       THEN Return(AudioErr("Unsupported sample format"))
       ELSE \/ Return(AudioErr("Failed to build input stream"))
            \/ Return(AudioErr("Failed to start audio stream"))
            \/ /\ stream' = "playing"
               /\ senders' = 2
               /\ receiver' = TRUE
               /\ apc' = "loop"
               /\ UNCHANGED <<result, cb>>
    /\ UNCHANGED <<rVars, pVars, hkVars, devVars, chan, sent, container, finalized>>

\* a history with one more sample; a session of any length has finitely many
\* states when the histories are not kept
Record(h, sample) == IF keep_history THEN Append(h, sample) ELSE h

\* what bounds the callback: the samples sent so far, or, without histories,
\* the samples waiting in the channel
Produced == IF keep_history THEN Len(sent) ELSE Len(chan)

\* the driver calls the data callback with a slice of input samples
CallbackInvoke ==
    /\ stream = "playing"
    /\ cb = <<>>
    /\ \E data \in InputData(sample_format) :
          /\ Produced + Len(cast_slice(data)) <= MaxSamples
          /\ cb' = cast_slice(data)
    /\ UNCHANGED <<rVars, pVars, hkVars, devVars, stream, senders, receiver, chan, sent, apc,
                   container, finalized, result>>

\* a loop that goes on to the next sample after a failed send
CallbackSendNoBreak ==
    /\ stream = "playing"
    /\ cb # <<>>
    /\ IF receiver
       THEN /\ chan' = Append(chan, Head(cb))
            /\ sent' = Record(sent, Head(cb))
            /\ cb' = Tail(cb)
       ELSE /\ cb' = Tail(cb)
            /\ UNCHANGED <<chan, sent>>
    /\ UNCHANGED <<rVars, pVars, hkVars, devVars, stream, senders, receiver, apc, container,
                   finalized, result>>

\* if tx.send(sample).is_err() { break; }
CallbackSend ==
    /\ stream = "playing"
    /\ cb # <<>>
    /\ IF receiver
       THEN /\ chan' = Append(chan, Head(cb))
            /\ sent' = Record(sent, Head(cb))
            /\ cb' = Tail(cb)
       ELSE /\ cb' = <<>>
            /\ UNCHANGED <<chan, sent>>
    /\ UNCHANGED <<rVars, pVars, hkVars, devVars, stream, senders, receiver, apc, container,
                   finalized, result>>

\* writer.write_sample(sample)?
WriteSample(sample, next) ==
    \/ /\ container' = Record(container, sample)
       /\ apc' = next
       /\ UNCHANGED <<result, stream, senders, receiver, cb>>
    \/ /\ Return(AudioErr("Failed to write audio sample to WAV"))
       /\ UNCHANGED container

\* match rx.recv_timeout(100ms) { Ok(sample) => write, Timeout => continue, Disconnected => break }
SinkRecv ==
    /\ apc = "loop"
    /\ IF chan # <<>>
       THEN /\ chan' = Tail(chan)
            /\ WriteSample(Head(chan), "loop")
       ELSE /\ apc' = IF senders = 0 THEN "drain" ELSE "loop"
            /\ UNCHANGED <<chan, container, result, stream, senders, receiver, cb>>
    /\ UNCHANGED <<rVars, pVars, hkVars, devVars, sent, finalized>>

\* a window end that skips the drain loop
SinkWindowEndsNoDrain ==
    /\ apc = "loop"
    /\ apc' = "drop_stream"
    /\ UNCHANGED <<rVars, pVars, hkVars, devVars, chVars, container, finalized, result>>

\* start.elapsed() < Duration::from_secs(duration_secs) is false: the window is over
SinkWindowEnds ==
    /\ apc = "loop"
    /\ apc' = "drain"
    /\ UNCHANGED <<rVars, pVars, hkVars, devVars, chVars, container, finalized, result>>

\* a drain that takes one sample at most
SinkDrainOnce ==
    /\ apc = "drain"
    /\ IF chan # <<>>
       THEN /\ chan' = Tail(chan)
            /\ WriteSample(Head(chan), "drop_stream")
       ELSE /\ apc' = "drop_stream"
            /\ UNCHANGED <<chan, container, result, stream, senders, receiver, cb>>
    /\ UNCHANGED <<rVars, pVars, hkVars, devVars, sent, finalized>>

\* while let Ok(sample) = rx.try_recv() { write }
SinkDrain ==
    /\ apc = "drain"
    /\ IF chan # <<>>
       THEN /\ chan' = Tail(chan)
            /\ WriteSample(Head(chan), "drain")
       ELSE /\ apc' = "drop_stream"
            /\ UNCHANGED <<chan, container, result, stream, senders, receiver, cb>>
    /\ UNCHANGED <<rVars, pVars, hkVars, devVars, sent, finalized>>

\* a drop(stream) that leaves the stream playing
AudioDropStreamNoStop ==
    /\ apc = "drop_stream"
    /\ apc' = "finalize"
    /\ UNCHANGED <<rVars, pVars, hkVars, devVars, chVars, container, finalized, result>>

\* drop(stream): the callback and its Sender go, once a running callback has returned
AudioDropStream ==
    /\ apc = "drop_stream"
    /\ cb = <<>>
    /\ stream' = "dropped"
    /\ senders' = senders - 1
    /\ apc' = "finalize"
    /\ UNCHANGED <<rVars, pVars, hkVars, devVars, receiver, chan, cb, sent, container, finalized, result>>

\* writer.finalize()?; Ok(())
AudioFinalize ==
    /\ apc = "finalize"
    /\ finalized' = finalized + 1
    /\ \/ Return(AudioOk)
       \/ Return(AudioErr("Failed to finalize WAV file"))
    /\ UNCHANGED <<rVars, pVars, hkVars, devVars, chan, sent, container>>

----------------------------------------------------------------------------
(* Specification *)

\* record_audio is not running
AudioIdle ==
    /\ device_name = Name("default", "lower")
    /\ host = [default_input_device |-> Mic, input_devices |-> <<Mic>>]
    /\ sample_format = "I16"
    /\ apc = "idle"
    /\ device = NoDevice
    /\ file_created = FALSE
    /\ stream = "none"
    /\ senders = 0
    /\ receiver = FALSE
    /\ chan = <<>>
    /\ cb = <<>>
    /\ sent = <<>>
    /\ container = <<>>
    /\ finalized = 0
    /\ result = AudioOk

\* start_hotkey_listener has returned and main enters its loop
InitHotkeys ==
    /\ always_post_process \in BOOLEAN
    /\ keep_history = TRUE
    /\ state = HotkeyStateNew
    /\ lockHolder = "none"
    /\ stamp = [is_recording |-> 0, is_post_processing |-> 0]
    /\ writes = 0
    /\ lpc = "listen"
    /\ pressed = {}
    /\ recording_active = FALSE
    /\ modifier_active = FALSE
    /\ down = {}
    /\ pc = "poll"
    /\ current_state = HotkeyStateNew
    /\ snapTorn = FALSE
    /\ use_local = FALSE
    /\ whisper_url = "unset"
    /\ proceed = FALSE
    /\ transcription = <<>>
    /\ final_text = <<>>
    /\ clipboard = OldClipboard
    /\ calls = <<>>
    /\ outcome = "none"
    /\ releasedSinceRun = TRUE
    /\ activeRuns = 0

Init ==
    /\ recording_keys \in RecordingCombos
    /\ InitHotkeys
    /\ AudioIdle
    /\ ParseIdle
    /\ ApiIdle

Listener ==
    \/ \E e \in Events : ListenerEvent(e)
    \/ ListenerLock
    \/ ListenerWriteRec
    \/ ListenerWritePp
    \/ ListenerDies

Main ==
    \/ MainPoll
    \/ MainSleep
    \/ MainRecord
    \/ MainProbe
    \/ MainConfirm
    \/ MainTranscribe
    \/ MainPostProcess
    \/ MainDeliver
    \/ MainResetLock
    \/ MainResetRec
    \/ MainResetPp

Next == Listener \/ Main

Spec == Init /\ [][Next]_vars

----------------------------------------------------------------------------
(* One recording session: main has just seen is_recording and calls record_audio *)

\* the orchestrator at the call of record_audio, the recording combo held
AtRecord ==
    /\ recording_keys \in RecordingCombos
    /\ always_post_process = FALSE
    /\ state = [is_recording |-> TRUE, is_post_processing |-> FALSE]
    /\ lockHolder = "none"
    /\ stamp = [is_recording |-> 2 % TagMod, is_post_processing |-> 2 % TagMod]
    /\ writes = 2 % TagMod
    /\ lpc = "listen"
    /\ pressed = {"ShiftLeft", "Space"}
    /\ recording_active = TRUE
    /\ modifier_active = FALSE
    /\ down = {"ShiftLeft", "Space"}
    /\ pc = "record"
    /\ current_state = [is_recording |-> TRUE, is_post_processing |-> FALSE]
    /\ snapTorn = FALSE
    /\ use_local = FALSE
    /\ whisper_url = "unset"
    /\ proceed = FALSE
    /\ transcription = <<>>
    /\ final_text = <<>>
    /\ clipboard = OldClipboard
    /\ calls = <<>>
    /\ outcome = "running"
    /\ releasedSinceRun = FALSE
    /\ activeRuns = 1

\* record_audio entered: nothing selected, created or sent yet
AudioAtEntry ==
    /\ ParseIdle
    /\ ApiIdle
    /\ device_name \in ConfigDeviceNames
    /\ host \in Hosts
    /\ sample_format = "I16"
    /\ apc = "select"
    /\ device = NoDevice
    /\ file_created = FALSE
    /\ stream = "none"
    /\ senders = 0
    /\ receiver = FALSE
    /\ chan = <<>>
    /\ cb = <<>>
    /\ sent = <<>>
    /\ container = <<>>
    /\ finalized = 0
    /\ result = AudioOk

InitAudio ==
    /\ AtRecord
    /\ keep_history = TRUE
    /\ AudioAtEntry

\* if let Err(e) = record_audio(...) { error!(...); continue; }, with what record_audio returned
MainRecordReturn ==
    /\ pc = "record"
    /\ apc = "returned"
    /\ calls' = Append(calls, Call("record_audio", "recording.wav", result.ok))
    /\ IF result.ok
       THEN /\ pc' = "probe"
            /\ UNCHANGED <<outcome, activeRuns>>
       ELSE Continue("recording_failed")
    /\ UNCHANGED <<rVars, pVars, aVars, cfgVars, shVars, lVars, current_state, snapTorn, runVars,
                   clipboard, releasedSinceRun>>

RecordAudio ==
    \/ AudioSelect
    \/ AudioConfig
    \/ AudioCreate
    \/ AudioBuild
    \/ SinkRecv
    \/ SinkWindowEnds
    \/ SinkDrain
    \/ AudioDropStream
    \/ AudioFinalize

Callback == CallbackInvoke \/ CallbackSend

NextAudio ==
    \/ RecordAudio
    \/ Callback
    \/ MainRecordReturn
    \/ MainProbe
    \/ MainConfirm
    \/ MainTranscribe

SpecAudio == InitAudio /\ [][NextAudio]_vars

----------------------------------------------------------------------------
(* A recording session of any length: the callback may deliver for ever *)

InitAudioLive ==
    /\ AtRecord
    /\ keep_history = FALSE
    /\ AudioAtEntry

\* the thread in record_audio keeps running, the window ends, and a callback
\* under way sends its samples; how often the driver calls is left open
FairAudio ==
    /\ WF_vars(AudioSelect) /\ WF_vars(AudioConfig) /\ WF_vars(AudioCreate)
    /\ WF_vars(AudioBuild)
    /\ WF_vars(SinkRecv) /\ WF_vars(SinkWindowEnds) /\ WF_vars(SinkDrain)
    /\ WF_vars(AudioDropStream) /\ WF_vars(AudioFinalize)
    /\ WF_vars(CallbackSend)

SpecAudioLive == InitAudioLive /\ [][NextAudio]_vars /\ FairAudio

----------------------------------------------------------------------------
(* The data callback alone, on a channel whose Receiver may go away *)

\* the Receiver is dropped, and with it what is still queued
ReceiverGoes ==
    /\ receiver
    /\ receiver' = FALSE
    /\ chan' = <<>>
    /\ UNCHANGED <<rVars, pVars, hkVars, devVars, stream, senders, cb, sent, apc, container,
                   finalized, result>>

\* a playing stream of each supported encoding, nothing sent yet
InitCallback ==
    /\ AtRecord
    /\ keep_history = TRUE
    /\ ParseIdle
    /\ ApiIdle
    /\ device_name = Name("default", "lower")
    /\ host = [default_input_device |-> Mic, input_devices |-> <<Mic>>]
    /\ sample_format \in {"F32", "I16", "U16"}
    /\ apc = "loop"
    /\ device = Mic
    /\ file_created = TRUE
    /\ stream = "playing"
    /\ senders = 2
    /\ receiver = TRUE
    /\ chan = <<>>
    /\ cb = <<>>
    /\ sent = <<>>
    /\ container = <<>>
    /\ finalized = 0
    /\ result = AudioOk

NextCallback == CallbackInvoke \/ CallbackSend \/ ReceiverGoes

SpecCallback == InitCallback /\ [][NextCallback]_vars

----------------------------------------------------------------------------
(* The capture sink alone, on a hand-off channel that is already closed *)

\* i16 samples as the channel carries them
SinkSamples == {ToI16(s[1]) : s \in InputSamples("I16")}

\* every Sender is gone and N <= MaxSamples samples are still in the channel
InitSink ==
    /\ AtRecord
    /\ keep_history = TRUE
    /\ ParseIdle
    /\ ApiIdle
    /\ device_name = Name("default", "lower")
    /\ host = [default_input_device |-> Mic, input_devices |-> <<Mic>>]
    /\ sample_format = "I16"
    /\ apc = "loop"
    /\ device = Mic
    /\ file_created = TRUE
    /\ stream = "dropped"
    /\ senders = 0
    /\ receiver = TRUE
    /\ chan \in UNION {[1..n -> SinkSamples] : n \in 0..MaxSamples}
    /\ cb = <<>>
    /\ sent = chan
    /\ container = <<>>
    /\ finalized = 0
    /\ result = AudioOk

NextSink == SinkRecv \/ SinkWindowEnds \/ SinkDrain

SpecSink == InitSink /\ [][NextSink]_vars

----------------------------------------------------------------------------
(* parse_hotkey on combo strings of up to MaxTokens tokens *)

InitParse ==
    /\ ApiIdle
    /\ recording_keys \in RecordingCombos
    /\ InitHotkeys
    /\ always_post_process = FALSE
    /\ AudioIdle
    /\ tokens \in UNION {[1..n -> WrittenTokens({"lower", "title"})] : n \in 1..MaxTokens}
    /\ hotkey = Render(tokens)
    /\ parsed = {}
    /\ hotkey2 = <<>>
    /\ parsed2 = {}
    /\ ppc = "start"

NextParse == ParseFirst \/ ParseAgain \/ ParsePermuted \/ ParseStripped

SpecParse == InitParse /\ [][NextParse]_vars

----------------------------------------------------------------------------
(* The program started with a recording hotkey string that has no recognized token *)

\* "", "f1" and "F1+" as values of config.hotkeys.recording
UnparseableCombos ==
    {<<>>,
     Word("f1"),
     Render(<<[word |-> "f1", case |-> "title", pad |-> "none"],
              [word |-> "empty", case |-> "lower", pad |-> "none"]>>)}

InitEmptyCombo ==
    /\ \E s \in UnparseableCombos : recording_keys = parse_hotkey(s)
    /\ InitHotkeys
    /\ AudioIdle
    /\ ParseIdle
    /\ ApiIdle

SpecEmptyCombo == InitEmptyCombo /\ [][Next]_vars

----------------------------------------------------------------------------
(* transcribe_audio and post_process_text on every answer of the network *)

InitApi ==
    /\ recording_keys \in RecordingCombos
    /\ InitHotkeys
    /\ always_post_process = FALSE
    /\ AudioIdle
    /\ ParseIdle
    /\ whisper_resp \in ApiWhisperResponses
    /\ llm_resp \in ApiLLMResponses
    /\ api_result = Ok(<<>>)
    /\ api_pc = "start"

NextApi == ApiTranscribe \/ ApiPostProcess

SpecApi == InitApi /\ [][NextApi]_vars

----------------------------------------------------------------------------
(* Views of the current run *)

CallsTo(f) == {i \in 1..Len(calls) : calls[i].fn = f}

Called(f) == CallsTo(f) # {}

\* the step ends a run and the process goes on
RunEnds == activeRuns' < activeRuns /\ pc' # "exited"

\* the step starts a run
RunStarts == pc = "poll" /\ pc' = "record"

----------------------------------------------------------------------------
(* Claims *)

\* C1: after every run, completed or aborted (recording failure, declined
\* gate, transcription failure), the step that ends the run leaves both
\* recording_armed and post_process_armed false in the shared state, so the
\* next Idle poll follows a reset.
C1_ResetAfterEveryRun == [][RunEnds => state' = HotkeyStateNew]_vars

\* C2: no failure of a pipeline stage makes the orchestrator loop exit: the
\* process never terminates.
C2_LoopNeverExits == pc # "exited"

\* C3: at most one pipeline run is active at any time, and a run is active
\* exactly while the orchestrator is inside the loop body's run stages,
\* whatever the listener has written into the shared state meanwhile.
C3_OneRunAtATime ==
    /\ activeRuns \in {0, 1}
    /\ (activeRuns = 1) <=> (pc \in RunPhases)

\* C3 witness: the transcription call is pending and the listener has since
\* written an armed pair that differs from the run's snapshot.
C3_Witness ==
    /\ pc = "transcribe"
    /\ activeRuns = 1
    /\ state.is_recording
    /\ state.is_post_processing
    /\ ~current_state.is_post_processing

\* C4: every snapshot the orchestrator reads is a pair written by one single
\* critical section (one listener event or one reset), never torn.
C4_SnapshotNeverTorn == ~snapTorn

\* C4 witness: a snapshot was read and started a run while the listener,
\* with a newer event in hand, is waiting to write a different pair.
C4_Witness ==
    /\ pc = "record"
    /\ current_state = [is_recording |-> TRUE, is_post_processing |-> TRUE]
    /\ lpc = "lock_state"
    /\ ~recording_active
    /\ ~modifier_active

\* C5: when the listener finishes handling an event, the shared state holds
\* recording_armed = (recording combo within the keys down) and
\* post_process_armed = (modifier combo within the keys down), the keys
\* down being those pressed and not released according to the event history.
C5_StateFollowsPressedSet ==
    [][(lpc = "write_pp" /\ lpc' = "listen") =>
          state' = [is_recording |-> recording_keys \subseteq down',
                    is_post_processing |-> modifier_keys \subseteq down']]_vars

\* C5 witness: after a release of the modifier the listener is back in
\* listen() and the shared state shows the recording combo alone.
C5_Witness ==
    /\ lpc = "listen"
    /\ down = {"ShiftLeft", "Space"}
    /\ state = [is_recording |-> TRUE, is_post_processing |-> FALSE]
    /\ current_state = [is_recording |-> FALSE, is_post_processing |-> TRUE]

\* C6: after a run has completed and reset the shared state, a run starts
\* only if the recording combo has been released since the completed run
\* started.
C6_NoRetriggerWhileHeld ==
    [][(RunStarts /\ outcome = "completed") => releasedSinceRun]_vars

\* C7: in a run whose local-endpoint probe succeeded, the transcription call
\* goes to the local endpoint, without the confirmation gate, and no call of
\* the run goes to the hosted endpoint.
C7_LocalProbeKeepsAudioLocal ==
    (Called("probe") /\ use_local) =>
        /\ \A i \in CallsTo("transcribe_audio") : calls[i].arg = "local_whisper"
        /\ ~Called("confirm")
        /\ whisper_url = "local_whisper"
        /\ (pc \in {"post_process", "deliver", "reset_lock", "reset_rec", "reset_pp"}
              => Called("transcribe_audio"))

\* C7 witness: the probe succeeded and the transcript came from the local endpoint.
C7_Witness ==
    /\ pc = "post_process"
    /\ use_local
    /\ \E i \in CallsTo("transcribe_audio") : calls[i].arg = "local_whisper" /\ calls[i].ok

\* C8: a transcription call goes to the hosted endpoint only after the user
\* answered the gate with yes in the same run; after the answer no, the run
\* makes no transcription call and no clipboard write.
C8_HostedOnlyAfterConsent ==
    /\ \A i \in CallsTo("transcribe_audio") :
          calls[i].arg = "hosted_whisper" =>
              \E j \in CallsTo("confirm") : j < i /\ calls[j].arg = "yes"
    /\ (\E j \in CallsTo("confirm") : calls[j].arg = "no") =>
          /\ ~Called("transcribe_audio")
          /\ ~Called("copy_to_clipboard")
          /\ outcome = "declined"

\* C8 witness: the local endpoint was unreachable, the user declined and the
\* run has ended.
C8_Witness ==
    /\ pc = "poll"
    /\ outcome = "declined"
    /\ Called("probe")
    /\ ~use_local
    /\ \E j \in CallsTo("confirm") : calls[j].arg = "no"

\* C9: when the transcription call fails, the run aborts with no
\* post-processing call and no clipboard write.
C9_TranscriptionFailureAborts ==
    (\E i \in CallsTo("transcribe_audio") : ~calls[i].ok) =>
        /\ ~Called("post_process_text")
        /\ ~Called("copy_to_clipboard")
        /\ outcome = "transcription_failed"
        /\ pc \in {"poll", "sleep"}

\* C9 witness: a run ended on a failed transcription call to the hosted endpoint.
C9_Witness ==
    /\ outcome = "transcription_failed"
    /\ \E i \in CallsTo("transcribe_audio") : ~calls[i].ok /\ calls[i].arg = "hosted_whisper"

\* C10: when the post-processing call was made and failed, the text handed
\* to the clipboard is exactly the transcript, and the run goes on to the
\* clipboard write and the reset like any other run.
C10_PostProcessFailureFallsBack ==
    (\E i \in CallsTo("post_process_text") : ~calls[i].ok) =>
        /\ final_text = transcription
        /\ \A k \in CallsTo("copy_to_clipboard") :
              /\ calls[k].arg = transcription
              /\ calls[k].ok => clipboard = transcription
        /\ \E t \in CallsTo("transcribe_audio") : calls[t].ok
        /\ outcome \in {"running", "completed"}
        /\ outcome = "completed" => Cardinality(CallsTo("copy_to_clipboard")) = 1

\* C10 witness: a completed run whose post-processing failed put the
\* transcript, leading blank included, on the clipboard.
C10_Witness ==
    /\ outcome = "completed"
    /\ \E i \in CallsTo("post_process_text") : ~calls[i].ok
    /\ transcription = <<" ", "a">>
    /\ clipboard = transcription

\* C11: the post-processing call is made in a run exactly when the
\* transcription succeeded and post_process_armed was true in the snapshot
\* that started the run or always_post_process is set; what the listener
\* writes after the snapshot has no part in it, and without the call the
\* clipboard is handed the transcript unchanged.
C11_PostProcessIffArmedAtStart ==
    /\ Called("post_process_text") =>
          /\ \E t \in CallsTo("transcribe_audio") : calls[t].ok
          /\ Cardinality(CallsTo("post_process_text")) = 1
    /\ pc \in {"deliver", "reset_lock", "reset_rec", "reset_pp"} =>
          /\ Called("post_process_text") <=>
                (current_state.is_post_processing \/ always_post_process)
          /\ ~Called("post_process_text") =>
                /\ final_text = transcription
                /\ \A k \in CallsTo("copy_to_clipboard") : calls[k].arg = transcription
    /\ pc \in {"record", "probe", "confirm", "transcribe", "post_process"} =>
          ~Called("post_process_text")

\* C11 witness: the modifier was pressed after the run's snapshot, the flag
\* is off, and the transcript went to the clipboard without post-processing.
C11_Witness ==
    /\ pc = "reset_lock"
    /\ ~always_post_process
    /\ ~current_state.is_post_processing
    /\ state.is_post_processing
    /\ ~Called("post_process_text")
    /\ \E k \in CallsTo("copy_to_clipboard") : calls[k].ok /\ clipboard = transcription

\* C12: a run that obtained a transcript makes exactly one clipboard write
\* attempt, failed or not, and goes on to the reset; a run that aborted
\* before makes none.
C12_OneClipboardAttempt ==
    /\ Cardinality(CallsTo("copy_to_clipboard")) <= 1
    /\ Called("copy_to_clipboard") <=>
          (pc \in {"reset_lock", "reset_rec", "reset_pp"} \/ outcome = "completed")
    /\ Called("copy_to_clipboard") => \E t \in CallsTo("transcribe_audio") : calls[t].ok
    /\ (\E t \in CallsTo("transcribe_audio") : calls[t].ok) =>
          (pc \in {"post_process", "deliver"} \/ Called("copy_to_clipboard"))
    /\ outcome \in {"recording_failed", "declined", "transcription_failed", "process_exited"}
          => ~Called("copy_to_clipboard")

\* C12 witness: a run completed, reset included, after its only clipboard
\* write failed and left the clipboard as it was.
C12_Witness ==
    /\ outcome = "completed"
    /\ pc = "sleep"
    /\ state = HotkeyStateNew
    /\ \E k \in CallsTo("copy_to_clipboard") : ~calls[k].ok
    /\ clipboard = OldClipboard

\* C13: with the hand-off channel closed and N samples sent, the sink
\* writes exactly those N samples, in the order sent, whether or not the
\* window ends before all of them are received: while the sink runs what it
\* has written followed by what is still in the channel is what was sent,
\* and when it stops the container holds all of it.
C13_SinkWritesAllInOrder ==
    /\ apc \in {"loop", "drain", "drop_stream"} => container \o chan = sent
    /\ apc = "drop_stream" => (container = sent /\ chan = <<>>)

\* C13 witness: the sink has stopped with MaxSamples samples written, not all alike.
C13_Witness ==
    /\ senders = 0
    /\ apc = "drop_stream"
    /\ Len(container) = MaxSamples
    /\ container = sent
    /\ container[1] # container[MaxSamples]

\* C14: the container is finalized once, and at finalization every sample
\* the callback pushed onto the channel has been written: none is left in
\* the channel.
C14_FinalizedAfterChannelExhausted ==
    finalized > 0 => (finalized = 1 /\ chan = <<>> /\ container = sent)

IsSentinel == to_lowercase(device_name) = Name("default", "lower")

Enumerated(n) == \E i \in 1..Len(host.input_devices) : host.input_devices[i].name = n

\* C16: "default" in any letter case selects the default input device; any
\* other name selects an enumerated device of exactly that name, and when
\* there is none record_audio fails with the device-not-found error before
\* the container file is created and main goes back to its poll without a
\* transcription call.
C16_DeviceSelection ==
    apc \notin {"idle", "select"} =>
        /\ (IsSentinel /\ host.default_input_device # NoDevice)
              => device = host.default_input_device
        /\ (~IsSentinel /\ Enumerated(device_name))
              => (device.name = device_name /\ Enumerated(device.name))
        /\ (~IsSentinel /\ ~Enumerated(device_name)) =>
              /\ apc = "returned"
              /\ ~result.ok
              /\ result.err = "Specified recording device not found"
              /\ ~file_created
              /\ container = <<>>
              /\ pc \in {"record", "poll"}
              /\ pc = "poll" => outcome = "recording_failed"
              /\ ~Called("transcribe_audio")

\* C16 witness: "Mic" is asked for where only "mic" exists: no device, no
\* file, and main is back at its poll.
C16_Witness ==
    /\ device_name = Name("mic", "caps")
    /\ host.input_devices = <<Mic>>
    /\ apc = "returned"
    /\ result.err = "Specified recording device not found"
    /\ ~file_created
    /\ pc = "poll"
    /\ \E i \in CallsTo("record_audio") : ~calls[i].ok

\* the key a recognized word stands for, from the table of the combo syntax
WordKey(w) ==
    CASE w = "shift"               -> "ShiftLeft"
      [] w \in {"ctrl", "control"} -> "ControlLeft"
      [] w = "alt"                 -> "Alt"
      [] w = "space"               -> "Space"
      [] w = "enter"               -> "Return"
      [] w = "escape"              -> "Escape"

RecognizedKeys(toks) ==
    {WordKey(toks[i].word) : i \in {j \in 1..Len(toks) : IsRecognized(toks[j])}}

AllRecognized == \A i \in 1..Len(tokens) : IsRecognized(tokens[i])

\* C17: for a combo string of recognized tokens only, parsing the string
\* again gives the same set, and so does parsing the same tokens in any
\* order, in another letter case and with other blanks around them;
\* "Shift+Space" and "Space+Shift" parse to the same set.
C17_ParseOrderIndependent ==
    /\ (ppc \in {"again", "permuted"} /\ AllRecognized) => parsed2 = parsed
    /\ parse_hotkey(Render(<<[word |-> "shift", case |-> "title", pad |-> "none"],
                             [word |-> "space", case |-> "title", pad |-> "none"]>>))
         = parse_hotkey(Render(<<[word |-> "space", case |-> "title", pad |-> "none"],
                                 [word |-> "shift", case |-> "title", pad |-> "none"]>>))

\* C17 witness: "Shift+ space \t" was parsed, then "SPACE+SHIFT": both give
\* the shift key and the space bar.
C17_Witness ==
    /\ ppc = "permuted"
    /\ Len(tokens) = 2
    /\ tokens[1] = [word |-> "shift", case |-> "title", pad |-> "none"]
    /\ tokens[2] = [word |-> "space", case |-> "lower", pad |-> "around"]
    /\ SubSeq(hotkey2, 1, 6) = <<"S", "P", "A", "C", "E", "+">>
    /\ parsed = {"ShiftLeft", "Space"}
    /\ parsed2 = parsed

\* C18: for a combo string with an unrecognized token, parse_hotkey returns
\* the set of the keys of the recognized tokens, nothing for the others, and
\* the string without its unrecognized tokens parses to the same set.
C18_UnrecognizedTokensDropped ==
    (ppc \notin {"idle", "start"} /\ ~AllRecognized) =>
        /\ parsed = RecognizedKeys(tokens)
        /\ ppc = "permuted" => parsed2 = RecognizedKeys(tokens)
        /\ ppc = "stripped" => parsed2 = parsed

\* C18 witness: " F1 \t+ctrl" parses to the control key alone, and so does "ctrl".
C18_Witness ==
    /\ ppc = "stripped"
    /\ Len(tokens) = 2
    /\ tokens[1] = [word |-> "f1", case |-> "title", pad |-> "around"]
    /\ tokens[2] = [word |-> "ctrl", case |-> "lower", pad |-> "none"]
    /\ hotkey2 = Word("ctrl")
    /\ parsed = {"ControlLeft"}
    /\ parsed2 = parsed

\* C19: when the recording hotkey string parses to the empty set, the
\* listener never sets is_recording and main never starts a recording run,
\* whatever keys are pressed or released.
C19_EmptyComboGuarded ==
    recording_keys = {} =>
        /\ ~state.is_recording
        /\ ~recording_active
        /\ activeRuns = 0
        /\ calls = <<>>

\* C20: main's poll does not wait for the listening loop, only for the
\* mutex; when listen() fails only the listener ends: that step changes
\* neither the shared state nor main's position, the ended listener holds no
\* lock, writes nothing more and is not started again, and main can still
\* take its next step.
C20_ListenerDeathIsLocal ==
    /\ []((pc = "poll" /\ lockHolder = "none") => ENABLED MainPoll)
    /\ []((lpc = "dead" /\ pc # "exited") => (lockHolder # "listener" /\ ENABLED Main))
    /\ [][/\ (lpc # "dead" /\ lpc' = "dead") =>
                (pc # "exited" /\ UNCHANGED <<shVars, mVars>>)
          /\ lpc = "dead" =>
                /\ lpc' = "dead"
                /\ UNCHANGED <<pressed, recording_active, modifier_active>>
                /\ (state' # state \/ stamp' # stamp) => lockHolder = "main"
                /\ lockHolder' # "listener"]_vars

\* C20 witness: the listener has ended with the combo still held; main has
\* completed a run, reset the state and is between two polls.
C20_Witness ==
    /\ lpc = "dead"
    /\ recording_keys \subseteq down
    /\ outcome = "completed"
    /\ ~state.is_recording
    /\ pc = "sleep"

\* C21: on a non-success status transcribe_audio fails with the message
\* "Whisper API error " and the status code with its reason phrase, nothing
\* more, and post_process_text with "LLM API error " and the same, whatever
\* the body of the response.
C21_StatusErrorMessage ==
    /\ (api_pc = "transcribed" /\ whisper_resp.file_ok /\ whisper_resp.transport_ok
          /\ ~is_success(whisper_resp.status))
         => api_result = Err(<<"Whisper API error ", StatusText(whisper_resp.status)>>)
    /\ (api_pc = "post_processed" /\ llm_resp.transport_ok /\ ~is_success(llm_resp.status))
         => api_result = Err(<<"LLM API error ", StatusText(llm_resp.status)>>)

\* C22: on a success status with a body that parses, post_process_text
\* returns the first candidate's text (trimmed), whatever the later
\* candidates are; with no candidate it fails with "No choices found in LLM
\* response", a message no non-success status produces.
C22_FirstCandidateOrNoChoices ==
    api_pc = "post_processed" /\ llm_resp.transport_ok =>
        /\ (is_success(llm_resp.status) /\ llm_resp.body = "json" /\ llm_resp.choices # <<>>)
              => api_result = Ok(Trim(llm_resp.choices[1].text))
        /\ (is_success(llm_resp.status) /\ llm_resp.body = "json" /\ llm_resp.choices = <<>>)
              => api_result = Err(<<"No choices found in LLM response">>)
        /\ ~is_success(llm_resp.status)
              => (~api_result.ok /\ api_result.val # <<"No choices found in LLM response">>
                  /\ api_result.val[1] = "LLM API error ")

\* C22 witness: the candidates " b " and "c" in that order, status 204: the
\* result is "b".
C22_Witness ==
    /\ api_pc = "post_processed"
    /\ llm_resp.transport_ok
    /\ llm_resp.status = 204
    /\ llm_resp.body = "json"
    /\ Len(llm_resp.choices) = 2
    /\ llm_resp.choices[1].text = <<" ", "b", " ">>
    /\ llm_resp.choices[2].text = <<"c">>
    /\ api_result = Ok(<<"b">>)

\* C23: a recording session whose stream has started ends: record_audio
\* returns, even when the callback keeps delivering until the stream is
\* dropped.
C23_SessionEnds == (apc = "loop") ~> (apc = "returned")

\* C24: the stream is dropped before the container is finalized: from the
\* call of finalize on, the stream is not playing, no callback is under way,
\* and nothing more is sent on the channel.
C24_StreamDroppedBeforeFinalize ==
    /\ []((apc = "finalize" \/ finalized > 0) => (stream = "dropped" /\ cb = <<>>))
    /\ [][(apc = "finalize" \/ finalized > 0) => (sent' = sent /\ chan' = chan)]_vars

\* C24 witness: a session that sent samples has been finalized and has returned Ok.
C24_Witness ==
    /\ apc = "returned"
    /\ result.ok
    /\ finalized = 1
    /\ stream = "dropped"
    /\ Len(sent) = 2

\* C25: the channel has a capacity: it never holds as many samples as the
\* callback is given in a session, however slowly the sink consumes.
C25_ChannelBounded == Len(chan) < MaxSamples

\* C26: the callback never waits: a send is possible whenever samples are
\* left; with the Receiver alive it sends the next sample, and with the
\* Receiver gone it drops all the samples left of the invocation at once
\* and leaves what was sent before as it is.
C26_CallbackDropsOnDisconnect ==
    /\ []((stream = "playing" /\ cb # <<>>) => ENABLED CallbackSend)
    /\ [][(cb # <<>> /\ cb' # cb) =>
            IF receiver
            THEN cb' = Tail(cb) /\ sent' = Append(sent, Head(cb))
            ELSE cb' = <<>> /\ sent' = sent /\ chan' = chan]_vars

\* C26 witness: the Receiver went after the first of the two 16-bit values of
\* an invocation; the second was dropped.
C26_Witness ==
    /\ sample_format = "F32"
    /\ ~receiver
    /\ stream = "playing"
    /\ cb = <<>>
    /\ Len(sent) = 1

\* C27: for each supported encoding an invocation with k input samples has k
\* 16-bit samples to push, the i-th from the i-th input sample.
C27_OneSamplePerInput ==
    [][(cb = <<>> /\ cb' # <<>>) =>
          \E data \in InputData(sample_format) :
              /\ cb' = cast_slice(data)
              /\ Len(cb') = Len(data)
              /\ \A i \in 1..Len(data) : \E j \in 1..Len(data[i]) : cb'[i] = ToI16(data[i][j])]_vars

\* C28 as claimed: in every state with the listener running, a flag that is
\* true in the shared state has all the keys of its combo in the pressed set.
C28_ArmedImpliesPressed ==
    lpc # "dead" =>
        /\ state.is_recording => recording_keys \subseteq pressed
        /\ state.is_post_processing => modifier_keys \subseteq pressed

\* C28 as amended: the same whenever the listener is between two events;
\* inside the callback, from the update of the pressed set to the two
\* writes, a flag may still be true for a combo no longer pressed.
C28_ArmedImpliesPressedBetweenEvents ==
    lpc \in {"listen", "dead"} =>
        /\ state.is_recording => recording_keys \subseteq pressed
        /\ state.is_post_processing => modifier_keys \subseteq pressed

\* C28 witness: after a completed run and its reset the listener has armed
\* both flags again, all three keys pressed.
C28_Witness ==
    /\ lpc = "listen"
    /\ outcome = "completed"
    /\ state.is_recording
    /\ state.is_post_processing
    /\ pressed = {"ShiftLeft", "Space", "ControlLeft"}

StagePositions == {"record", "probe", "confirm", "transcribe", "post_process", "deliver"}

\* C29: main holds the state mutex only inside its reset; the snapshot takes
\* and releases it in one step; in no stage of a run does main hold it, so
\* a listener waiting for the mutex during a stage can take it, and while
\* the process runs some step is always possible.
C29_LockOnlyForSnapshotAndReset ==
    /\ lockHolder = "main" <=> pc \in {"reset_rec", "reset_pp"}
    /\ (pc \in StagePositions /\ lpc = "lock_state") => ENABLED ListenerLock
    /\ pc # "exited" => ENABLED Next

\* C29 witness: the listener writes under the mutex while main is in the
\* transcription stage.
C29_Witness ==
    /\ pc = "transcribe"
    /\ lockHolder = "listener"
    /\ lpc = "write_pp"

====
